---- MODULE Spec2Model ----
(***************************************************************************)
(* The AID emulator: the two-party turn engine (Emulator.handleInput and   *)
(* its helpers), the hook loader (loadModifier) and the shared world state *)
(* (history, storyCards, state.memory) of Parameters.js.                   *)
(*                                                                         *)
(* A text is a sequence of chunks (strings); concatenation of JS strings   *)
(* is concatenation of sequences, "\n" is the newline chunk.  A JS value   *)
(* handed over a dynamically typed boundary is a record [t, tt, v]: t its  *)
(* type, tt the type of its .text property, v the string it carries.       *)
(***************************************************************************)
EXTENDS FiniteSets, Integers, Sequences, TLC

\* ------------------------------------------------------------- bounds
MaxCalls == 2
MaxTurns == 2
MaxCards == 2
MaxLoads == 2

CallIds == 1..MaxCalls

\* ------------------------------------------------------------- JS values
Undefined == [t |-> "undefined", tt |-> "undefined", v |-> <<>>]
Str(s) == [t |-> "string", tt |-> "undefined", v |-> s]
NumberValue == [t |-> "number", tt |-> "undefined", v |-> <<>>]
ObjText(s) == [t |-> "object", tt |-> "string", v |-> s]
ObjNumberText == [t |-> "object", tt |-> "number", v |-> <<>>]
EmptyObj == [t |-> "object", tt |-> "undefined", v |-> <<>>]

\* JS truthiness of a value: undefined and the empty string are falsy.
Truthy(x) ==
  CASE x.t = "undefined" -> FALSE
    [] x.t = "string" -> x.v # <<>>
    [] OTHER -> TRUE

\* A typeof that takes a string for its own text field
TypeofTextOrSelf(x) == IF x.t = "string" THEN "string" ELSE x.tt

\* typeof x.text
TypeofText(x) == x.tt

\* ------------------------------------------------------------- inputs
Omitted == "<omitted>"
Modes == {"say", "do"}
ModeArgs == Modes \cup {Omitted}
TextArgs == {Str(<<" ">>), Str(<<"a">>), Str(<<"b">>), Undefined}

Whitespace == {" ", "\n"}

\* A blank check that forgets trim(): !text
IsBlankNoTrim(text) == Len(text) = 0

\* !text.trim()
IsBlank(text) == \A i \in 1..Len(text) : text[i] \in Whitespace

\* if (typeof text !== "string") text = String(text || "")
NormalizeText(x) ==
  IF x.t = "string" THEN x.v
  ELSE IF Truthy(x) THEN <<x.t>> ELSE <<>>

\* mode = mode || this.selectedMode || "say"
NormalizeMode(mode, selected) ==
  IF mode \notin {Omitted, ""} THEN mode
  ELSE IF selected \notin {Omitted, ""} THEN selected
  ELSE "say"

\* ------------------------------------------------------------- world state
SessionStart == [mode |-> "start", text |-> Str(<<"=== New Session Started ===">>)]

\* state.memory[field], undefined when the object has no such property
MemoryGet(m, field) == IF field \in DOMAIN m THEN Str(m[field]) ELSE Undefined

InitialMemory == [context |-> <<>>, authorsNote |-> <<>>, frontMemory |-> <<>>]

RECURSIVE Join(_)
\* texts.join("\n")
Join(texts) ==
  IF Len(texts) = 0 THEN <<>>
  ELSE IF Len(texts) = 1 THEN texts[1]
  ELSE texts[1] \o <<"\n">> \o Join(Tail(texts))

\* `${x}`
TemplateString(x) == IF x.t = "string" THEN x.v ELSE <<x.t>>

\* The join of the synchronous engine: history.join("\n") + "\n"
RawContextTrailingNewline(h) ==
  Join([i \in 1..Len(h) |-> TemplateString(h[i].text)]) \o <<"\n">>

\* history.map(h => `${h.text}`).join("\n")
RawContext(h) == Join([i \in 1..Len(h) |-> TemplateString(h[i].text)])


\* ------------------------------------------------------------- story cards
RECURSIVE JoinKeys(_)
JoinKeys(keys) ==
  IF Len(keys) = 0 THEN <<>>
  ELSE IF Len(keys) = 1 THEN <<"\"", keys[1], "\"">>
  ELSE <<"\"", keys[1], "\"", ",">> \o JoinKeys(Tail(keys))

\* JSON.stringify(keys) of an array of strings
JSONStringify(keys) == <<"[">> \o JoinKeys(keys) \o <<"]">>

\* A duplicate check that compares the keys as sets
addStoryCardIgnoringOrder(cards, keys, entry, type) ==
  LET exists == \E i \in 1..Len(cards) :
                  {cards[i].keys[j] : j \in 1..Len(cards[i].keys)}
                    = {keys[j] : j \in 1..Len(keys)}
  IN IF exists THEN [cards |-> cards, ok |-> FALSE, ret |-> -1]
     ELSE [cards |-> Append(cards, [id |-> Len(cards), keys |-> keys, entry |-> entry,
                                    type |-> type]),
           ok |-> TRUE, ret |-> Len(cards)]

\* addStoryCard(keys, entry, type): [cards |-> the registry after, ret |-> index or FALSE]
addStoryCard(cards, keys, entry, type) ==
  LET keyString == JSONStringify(keys)
      exists == \E i \in 1..Len(cards) : JSONStringify(cards[i].keys) = keyString
  IN IF exists THEN [cards |-> cards, ok |-> FALSE, ret |-> -1]
     ELSE LET newCard == [id |-> Len(cards), keys |-> keys, entry |-> entry, type |-> type]
              pushed == Append(cards, newCard)
          IN [cards |-> pushed, ok |-> TRUE, ret |-> Len(pushed) - 1]

\* The default of the parameter type
TypeOrDefault(type) == IF type = Omitted THEN "general" ELSE type

\* storyCards.splice(index): without a count, every card from index on is deleted
SpliceToEnd(cards, index) == SubSeq(cards, 1, index)

\* A range check that lets index = length through (> in place of >=)
removeStoryCardOffByOne(cards, index) ==
  IF index < 0 \/ index > Len(cards)
  THEN [cards |-> cards, threw |-> TRUE]
  ELSE [cards |-> SubSeq(cards, 1, index) \o SubSeq(cards, index + 2, Len(cards)),
        threw |-> FALSE]

\* storyCards.splice(index, 1), index counted from 0
Splice(cards, index) == SubSeq(cards, 1, index) \o SubSeq(cards, index + 2, Len(cards))

\* removeStoryCard(index): [cards |-> the registry after, threw]
removeStoryCard(cards, index) ==
  IF index < 0 \/ index >= Len(cards)
  THEN [cards |-> cards, threw |-> TRUE]
  ELSE [cards |-> Splice(cards, index), threw |-> FALSE]

\* updateStoryCard(index, keys, entry, type): [cards |-> the registry after, threw]
updateStoryCard(cards, index, keys, entry, type) ==
  IF index < 0 \/ index >= Len(cards)
  THEN [cards |-> cards, threw |-> TRUE]
  ELSE [cards |-> [cards EXCEPT ![index + 1] =
                     [id |-> index, keys |-> keys, entry |-> entry, type |-> type]],
        threw |-> FALSE]

\* The arguments the story-card functions are called with.
KeyArgs == {<<"a">>, <<"a", "b">>, <<"b", "a">>}
CardArgs == {[entry |-> "e1", type |-> Omitted], [entry |-> "e2", type |-> "lore"]}
IndexArgs == -1..MaxCards

\* ------------------------------------------------------------- hook scripts
\* What a hook script does when its body runs: a side effect on the bindings it
\* was given, then the value its trailing modifier(text) call yields.
Script(effect, result) == [effect |-> effect, result |-> result]

\* Scripts without side effect, one per shape of result.
PureScripts ==
  {Script("none", r) : r \in {"identity", "modify", "plain", "number", "empty",
                              "nothing", "throw"}}

\* Scripts that change a binding they were given before they return or throw.
EffectScripts ==
  {Script("pushHistory", "identity"), Script("pushHistory", "throw"),
   Script("popHistory", "identity"), Script("setFrontMemory", "identity"),
   Script("addStoryCard", "identity"), Script("setFrontMemory", "throw"),
   Script("addStoryCard", "throw")}

Scripts == PureScripts \cup EffectScripts

\* Scripts that leave history alone.
HistoryNeutralScripts == {s \in Scripts : s.effect \notin {"pushHistory", "popHistory"}}

\* Scripts whose modifier is text => ({text}) and has no side effect.
IdentityScripts == {Script("none", "identity")}

HookEntry == [mode |-> "story", text |-> Str(<<"h">>)]

\* The side effect of a hook body on the bindings of getHookGlobals.
ApplyEffect(effect, w) ==
  CASE effect = "pushHistory" -> [w EXCEPT !.history = Append(@, HookEntry)]
    [] effect = "popHistory" ->
         [w EXCEPT !.history = IF Len(@) = 0 THEN @ ELSE SubSeq(@, 1, Len(@) - 1)]
    [] effect = "setFrontMemory" -> [w EXCEPT !.memory.frontMemory = <<"fm">>]
    [] effect = "addStoryCard" ->
         [w EXCEPT !.storyCards = addStoryCard(@, <<"k">>, "lore", "general").cards]
    [] OTHER -> w

\* The value of the trailing modifier(text) call.
ModifierValue(result, text) ==
  CASE result = "identity" -> ObjText(text)
    [] result = "modify" -> ObjText(text \o <<"!">>)
    [] result = "plain" -> Str(text \o <<"!">>)
    [] result = "number" -> ObjNumberText
    [] result = "empty" -> EmptyObj
    [] OTHER -> Undefined

\* getHookGlobals(arg): the live bindings handed to the hook
getHookGlobals(arg, w) == [text |-> arg, world |-> w]

\* A loader that looks at the responses only after it has run the code
loadModifierRunsFirst(src, libOk, modOk, globals) ==
  LET after == ApplyEffect(src.effect, globals.world)
  IN IF ~libOk \/ ~modOk
     THEN [threw |-> TRUE, fetched |-> FALSE, value |-> Undefined, world |-> after]
     ELSE IF src.result = "throw"
          THEN [threw |-> TRUE, fetched |-> TRUE, value |-> Undefined, world |-> after]
          ELSE [threw |-> FALSE, fetched |-> TRUE,
                value |-> ModifierValue(src.result, globals.text), world |-> after]

\* loadModifier(path, globals): fetch both sources, then run library + hook body.
\* [threw, fetched, value, world]; fetched: both responses were ok
loadModifier(src, libOk, modOk, globals) ==
  IF ~libOk \/ ~modOk
  THEN [threw |-> TRUE, fetched |-> FALSE, value |-> Undefined, world |-> globals.world]
  ELSE LET after == ApplyEffect(src.effect, globals.world)
       IN IF src.result = "throw"
          THEN [threw |-> TRUE, fetched |-> TRUE, value |-> Undefined, world |-> after]
          ELSE [threw |-> FALSE, fetched |-> TRUE,
                value |-> ModifierValue(src.result, globals.text), world |-> after]

\* ------------------------------------------------------------- hook sources
\* How the source text of a hook ends:
\*   "call"         modifier(text)           the trailing call, no semicolon
\*   "callSemi"     modifier(text);          the trailing call with its semicolon
\*   "callComment"  modifier(text) // ...    the call is there, other text follows it
\*   "none"         the source defines modifier and never calls it
Tails == {"call", "callSemi", "callComment", "none"}

\* The calls of modifier the source text makes itself when it is run unchanged.
OwnCalls(tail) == IF tail = "none" THEN 0 ELSE 1

\* /modifier\s*\(\s*text\s*\)\s*;?\s*$/ matches the end of the source
TrailingCallMatches(tail) == tail \in {"call", "callSemi"}

RECURSIVE RunModifier(_, _, _)
\* modifier executed `times` times in a row on the bindings w; an execution that
\* throws is the last one.  [runs, threw, world]
RunModifier(src, times, w) ==
  IF times = 0 THEN [runs |-> 0, threw |-> FALSE, world |-> w]
  ELSE LET after == ApplyEffect(src.effect, w)
       IN IF src.result = "throw"
          THEN [runs |-> 1, threw |-> TRUE, world |-> after]
          ELSE LET rest == RunModifier(src, times - 1, after)
               IN [runs |-> rest.runs + 1, threw |-> rest.threw, world |-> rest.world]

\* loadModifier of Loader.js on a source that ends as `tail` says: the trailing
\* call, when the pattern matches it, becomes `return modifier(text);`; otherwise
\* the source runs as it is and the function returns undefined.
\* [threw, value, world, runs]
loadModifierOf(src, tail, libOk, modOk, globals) ==
  IF ~libOk \/ ~modOk
  THEN [threw |-> TRUE, value |-> Undefined, world |-> globals.world, runs |-> 0]
  ELSE LET r == RunModifier(src, OwnCalls(tail), globals.world)
       IN [threw |-> r.threw,
           value |-> IF TrailingCallMatches(tail) /\ ~r.threw
                     THEN ModifierValue(src.result, globals.text)
                     ELSE Undefined,
           world |-> r.world, runs |-> r.runs]

\* loadModifier of the sandbox loader (src/emulator/Loader.js): the source runs as
\* it is, followed by the appended `__modifierReturn = modifier(text);`.  The
\* assignment goes to the property Object.assign put on globalThis, and the function
\* returns globals.__modifierReturn, which nothing has written: undefined.
\* [threw, value, world, runs]
sandboxLoadModifier(src, tail, libOk, modOk, globals) ==
  IF ~libOk \/ ~modOk
  THEN [threw |-> TRUE, value |-> Undefined, world |-> globals.world, runs |-> 0]
  ELSE LET r == RunModifier(src, OwnCalls(tail) + 1, globals.world)
       IN [threw |-> r.threw, value |-> Undefined, world |-> r.world, runs |-> r.runs]

HookNames == {"inputModifier", "contextModifier", "outputModifier"}

\* safeCallHook without its catch clause: an exception of the loader escapes
safeCallHookNoCatch(name, arg, src, libOk, modOk, w) ==
  LET r == loadModifier(src, libOk, modOk, getHookGlobals(arg, w))
  IN IF r.threw
     THEN [escaped |-> TRUE, failed |-> TRUE, ret |-> arg, result |-> Undefined,
           loadError |-> ~r.fetched, world |-> r.world]
     ELSE IF Truthy(r.value) /\ TypeofText(r.value) = "string"
          THEN [escaped |-> FALSE, failed |-> FALSE, ret |-> r.value.v,
                result |-> r.value, loadError |-> FALSE, world |-> r.world]
          ELSE [escaped |-> FALSE, failed |-> TRUE, ret |-> arg,
                result |-> r.value, loadError |-> FALSE, world |-> r.world]

\* The reduction of the synchronous engine: typeof out === "string" ? out : String(out)
safeCallHookStringOut(name, arg, src, libOk, modOk, w) ==
  LET r == loadModifier(src, libOk, modOk, getHookGlobals(arg, w))
  IN IF r.threw
     THEN [escaped |-> FALSE, failed |-> TRUE, ret |-> arg, result |-> Undefined,
           loadError |-> ~r.fetched, world |-> r.world]
     ELSE [escaped |-> FALSE, failed |-> FALSE,
           ret |-> IF r.value.t = "string" THEN r.value.v
                   ELSE IF r.value.t = "object" THEN <<"[object Object]">>
                   ELSE <<r.value.t>>,
           result |-> r.value, loadError |-> FALSE, world |-> r.world]

\* A safeCallHook that undoes what the hook did to the bindings when it falls back
safeCallHookRollback(name, arg, src, libOk, modOk, w) ==
  LET r == loadModifier(src, libOk, modOk, getHookGlobals(arg, w))
  IN IF r.threw
     THEN [escaped |-> FALSE, failed |-> TRUE, ret |-> arg, result |-> Undefined,
           loadError |-> ~r.fetched, world |-> w]
     ELSE IF Truthy(r.value) /\ TypeofText(r.value) = "string"
          THEN [escaped |-> FALSE, failed |-> FALSE, ret |-> r.value.v,
                result |-> r.value, loadError |-> FALSE, world |-> r.world]
          ELSE [escaped |-> FALSE, failed |-> TRUE, ret |-> arg,
                result |-> r.value, loadError |-> FALSE, world |-> w]

\* safeCallHook(name, arg): [escaped, failed, ret, result, loadError, world]; result
\* is the local of that name, the value captured from the hook (undefined when the
\* loader threw before it was assigned); loadError: what was caught is the error
\* of a failed fetch
safeCallHook(name, arg, src, libOk, modOk, w) ==
  IF name \notin HookNames
  THEN [escaped |-> FALSE, failed |-> FALSE, ret |-> arg, result |-> Undefined,
        loadError |-> FALSE, world |-> w]
  ELSE LET r == loadModifier(src, libOk, modOk, getHookGlobals(arg, w))
       IN IF r.threw
          THEN [escaped |-> FALSE, failed |-> TRUE, ret |-> arg, result |-> Undefined,
                loadError |-> ~r.fetched, world |-> r.world]
          ELSE IF Truthy(r.value) /\ TypeofText(r.value) = "string"
               THEN [escaped |-> FALSE, failed |-> FALSE, ret |-> r.value.v,
                     result |-> r.value, loadError |-> FALSE, world |-> r.world]
               ELSE [escaped |-> FALSE, failed |-> TRUE, ret |-> arg,
                     result |-> r.value, loadError |-> FALSE, world |-> r.world]


\* ------------------------------------------------------------- the engine
\* submitted counts the handleInput invocations made so far; it only bounds the runs.
\* cardOp is the last direct call of a story-card function: its arguments, the size
\* of the registry it found and what it returned or whether it threw.
\* load is the last direct call of a loader: the loader, how the hook source ended,
\* whether both fetches succeeded, how many times modifier was executed and what
\* the call returned or whether it threw; n counts the loads and bounds the runs.
VARIABLES currentSide, selectedMode, history, storyCards, memory, calls, submitted, cardOp,
          load

vars == <<currentSide, selectedMode, history, storyCards, memory, calls, submitted, cardOp, load>>

\* One handleInput invocation: its position, arguments and locals.
\*   pc: "idle"    no invocation in this slot
\*       "init"    awaiting this._initPromise
\*       "hook"    awaiting safeCallHook(hook, arg)
\*       "resume"  the hook has settled with ret, the continuation has not run yet
\*       "done"    returned; "rejected": an exception escaped handleInput
\*   side: currentSide as read at the dispatch
\*   h0: history as it was at the dispatch
\*   ran: the hooks this invocation has started, in order
\*   failed: the hooks of this invocation that fell back to identity
\*   result: the value safeCallHook captured from the hook that has just settled
\*   loadError: the hook that has just settled failed at its fetches
\*   wrote: <<hook, binding>> for every binding (history, storyCards, memory) a
\*          hook of this invocation has changed
IdleCall ==
  [pc |-> "idle", mode |-> Omitted, text |-> Undefined, side |-> "", h0 |-> <<>>,
   hook |-> "", arg |-> <<>>, ret |-> Undefined, result |-> Undefined,
   loadError |-> FALSE, wrote |-> {},
   newText |-> Undefined, context |-> Undefined, ran |-> <<>>, failed |-> {}]

NoCardOp ==
  [op |-> "none", index |-> -1, keys |-> <<>>, entry |-> "", type |-> "", size0 |-> 0,
   ok |-> FALSE, ret |-> -1, threw |-> FALSE]

NoLoad ==
  [loader |-> "none", tail |-> "", result |-> "", text |-> <<>>, fetched |-> FALSE,
   runs |-> 0, value |-> Undefined, threw |-> FALSE, n |-> 0]

LoadTexts == {<<"a">>}

World == [history |-> history, storyCards |-> storyCards, memory |-> memory]

Active == {c \in CallIds : calls[c].pc # "idle"}

\* constructor + init(): init has no await, so it has run when the constructor returns
Init ==
  /\ currentSide = "user"
  /\ selectedMode = "say"
  /\ history = <<SessionStart>>
  /\ storyCards = <<>>
  /\ memory = InitialMemory
  /\ calls = [c \in CallIds |-> IdleCall]
  /\ submitted = 0
  /\ cardOp = NoCardOp
  /\ load = NoLoad

\* setSelectedMode(mode)
setSelectedMode(mode) ==
  /\ selectedMode' = mode
  /\ UNCHANGED <<currentSide, history, storyCards, memory, calls, submitted, cardOp, load>>

\* handleInput(mode, text) up to its first await; limit: how many invocations
\* the caller lets be in progress at once
handleInput(c, mode, text, limit) ==
  /\ calls[c].pc = "idle"
  /\ \A d \in CallIds : d < c => calls[d].pc # "idle"
  /\ Cardinality(Active) < limit
  /\ submitted < MaxTurns
  /\ submitted' = submitted + 1
  /\ calls' = [calls EXCEPT ![c] = [IdleCall EXCEPT !.pc = "init", !.mode = mode,
                                                    !.text = text]]
  /\ UNCHANGED <<currentSide, selectedMode, history, storyCards, memory, cardOp, load>>

\* A turn that always hands over to the AI side
NextSideAlwaysAI(side) == "ai"

\* A flip with a misspelt side
NextSideMisspelt(side) == IF side = "user" THEN "AI" ELSE "user"

\* The side after a turn taken in `side`.
NextSide(side) == IF side = "user" THEN "ai" ELSE "user"

\* The hook a turn taken in `side` starts with.
FirstHook(side) == IF side = "user" THEN "inputModifier" ELSE "outputModifier"

\* An AI entry tagged with its side
AIEntryTagged(newText) == [mode |-> "ai", text |-> newText]

\* The history entry of a user turn / of an AI turn.
UserEntry(mode, newText) == [mode |-> "", text |-> newText]
AIEntry(newText) == [mode |-> "", text |-> newText]

\* handleInput after init: validation, blank check, dispatch on currentSide,
\* processInput / processOutput up to the await of safeCallHook
dispatch(c) ==
  /\ calls[c].pc = "init"
  /\ LET text == NormalizeText(calls[c].text)
         mode == NormalizeMode(calls[c].mode, selectedMode)
     IN IF IsBlank(text)
        THEN calls' = [calls EXCEPT ![c].pc = "done"]
        ELSE calls' = [calls EXCEPT
                         ![c].pc = "hook",
                         ![c].mode = mode,
                         ![c].text = Str(text),
                         ![c].side = currentSide,
                         ![c].h0 = history,
                         ![c].hook = FirstHook(currentSide),
                         ![c].arg = text,
                         ![c].ran = Append(@, FirstHook(currentSide))]
  /\ UNCHANGED <<currentSide, selectedMode, history, storyCards, memory, submitted, cardOp, load>>

\* What the awaiting caller of safeCallHook gets when an exception escapes it:
\* processInput and processOutput catch, log and return undefined; processContext
\* has no handler, so handleInput rejects.
Escaped(hook) == IF hook = "contextModifier" THEN "rejected" ELSE "resume"

\* The pending hook of invocation c runs: loadModifier fetches, the body executes
\* on the live bindings, safeCallHook reduces the outcome to a text.
runHook(c, src, libOk, modOk) ==
  /\ calls[c].pc = "hook"
  /\ LET r == safeCallHook(calls[c].hook, calls[c].arg, src, libOk, modOk, World)
     IN /\ history' = r.world.history
        /\ storyCards' = r.world.storyCards
        /\ memory' = r.world.memory
        /\ calls' = [calls EXCEPT
                       ![c].pc = IF r.escaped THEN Escaped(calls[c].hook) ELSE "resume",
                       ![c].ret = IF r.escaped THEN Undefined ELSE Str(r.ret),
                       ![c].result = r.result,
                       ![c].loadError = r.loadError,
                       ![c].wrote = @ \cup {<<calls[c].hook, b>> :
                                              b \in {x \in DOMAIN World :
                                                       r.world[x] # World[x]}},
                       ![c].failed = IF r.failed THEN @ \cup {calls[c].hook} ELSE @]
  /\ UNCHANGED <<currentSide, selectedMode, submitted, cardOp, load>>

\* The context joined before the entry of the turn is pushed
contextThenPush(h, mode, newText) ==
  [history |-> Append(h, UserEntry(mode, newText)), rawContext |-> RawContext(h)]

\* The entry put at the front of history (unshift in place of push)
unshiftThenContext(h, mode, newText) ==
  LET unshifted == <<UserEntry(mode, newText)>> \o h
  IN [history |-> unshifted, rawContext |-> RawContext(unshifted)]

\* history.push({mode: "", text: newText}) followed by the first statement of
\* processContext: [history |-> the history after, rawContext |-> the joined context]
pushThenContext(h, mode, newText) ==
  LET pushed == Append(h, UserEntry(mode, newText))
  IN [history |-> pushed, rawContext |-> RawContext(pushed)]

\* A user turn that flips currentSide when it pushes its entry, before the context
\* hook
afterInputFlips(c) ==
  /\ calls[c].pc = "resume"
  /\ calls[c].hook = "inputModifier"
  /\ LET newText == calls[c].ret
         t == pushThenContext(history, calls[c].mode, newText)
     IN /\ history' = t.history
        /\ memory' = [memory EXCEPT !.frontMemory = <<>>]
        /\ calls' = [calls EXCEPT
                       ![c].pc = "hook",
                       ![c].newText = newText,
                       ![c].result = Undefined,
                       ![c].loadError = FALSE,
                       ![c].hook = "contextModifier",
                       ![c].arg = t.rawContext,
                       ![c].ran = Append(@, "contextModifier")]
  /\ currentSide' = NextSide("user")
  /\ UNCHANGED <<selectedMode, storyCards, submitted, cardOp, load>>

\* A user turn whose processContext leaves frontMemory as the input hook left it
afterInputKeepsFrontMemory(c) ==
  /\ calls[c].pc = "resume"
  /\ calls[c].hook = "inputModifier"
  /\ LET newText == calls[c].ret
         t == pushThenContext(history, calls[c].mode, newText)
     IN /\ history' = t.history
        /\ calls' = [calls EXCEPT
                       ![c].pc = "hook",
                       ![c].newText = newText,
                       ![c].result = Undefined,
                       ![c].loadError = FALSE,
                       ![c].hook = "contextModifier",
                       ![c].arg = t.rawContext,
                       ![c].ran = Append(@, "contextModifier")]
  /\ UNCHANGED <<currentSide, selectedMode, storyCards, memory, submitted, cardOp, load>>

\* An AI turn that puts its entry at the front of history
afterOutputUnshift(c) ==
  /\ calls[c].pc = "resume"
  /\ calls[c].hook = "outputModifier"
  /\ LET newText == calls[c].ret
     IN /\ history' = <<AIEntry(newText)>> \o history
        /\ calls' = [calls EXCEPT ![c].pc = "done", ![c].newText = newText,
                                  ![c].result = Undefined, ![c].loadError = FALSE]
  /\ currentSide' = NextSide("ai")
  /\ UNCHANGED <<selectedMode, storyCards, memory, submitted, cardOp, load>>

\* user turn, after processInput: push the entry, then processContext up to
\* the await of the context hook
afterInput(c) ==
  /\ calls[c].pc = "resume"
  /\ calls[c].hook = "inputModifier"
  /\ LET newText == calls[c].ret
         t == pushThenContext(history, calls[c].mode, newText)
     IN /\ history' = t.history
        /\ memory' = [memory EXCEPT !.frontMemory = <<>>]
        /\ calls' = [calls EXCEPT
                       ![c].pc = "hook",
                       ![c].newText = newText,
                       ![c].result = Undefined,
                       ![c].loadError = FALSE,
                       ![c].hook = "contextModifier",
                       ![c].arg = t.rawContext,
                       ![c].ran = Append(@, "contextModifier")]
  /\ UNCHANGED <<currentSide, selectedMode, storyCards, submitted, cardOp, load>>

\* user turn, after processContext: flip to the AI side and render
afterContext(c) ==
  /\ calls[c].pc = "resume"
  /\ calls[c].hook = "contextModifier"
  /\ currentSide' = NextSide("user")
  /\ calls' = [calls EXCEPT ![c].pc = "done", ![c].context = calls[c].ret,
                          ![c].result = Undefined, ![c].loadError = FALSE]
  /\ UNCHANGED <<selectedMode, history, storyCards, memory, submitted, cardOp, load>>

\* AI turn, after processOutput: push the entry, flip to the user side, render
afterOutput(c) ==
  /\ calls[c].pc = "resume"
  /\ calls[c].hook = "outputModifier"
  /\ LET newText == calls[c].ret
     IN /\ history' = Append(history, AIEntry(newText))
        /\ calls' = [calls EXCEPT ![c].pc = "done", ![c].newText = newText,
                                  ![c].result = Undefined, ![c].loadError = FALSE]
  /\ currentSide' = NextSide("ai")
  /\ UNCHANGED <<selectedMode, storyCards, memory, submitted, cardOp, load>>

\* The promise of handleInput settles and its caller goes on.
return(c) ==
  /\ calls[c].pc \in {"done", "rejected"}
  /\ calls' = [calls EXCEPT ![c] = IdleCall]
  /\ UNCHANGED <<currentSide, selectedMode, history, storyCards, memory, submitted, cardOp, load>>

\* The invocations may overlap and the scripts may have side effects; the two are
\* explored apart to keep the state space small.  Spec: callers that do not await
\* (the two Enter handlers), scripts without side effect.
Next ==
  \/ \E m \in Modes : setSelectedMode(m)
  \/ \E c \in CallIds, m \in ModeArgs, t \in TextArgs : handleInput(c, m, t, MaxCalls)
  \/ \E c \in CallIds : dispatch(c)
  \/ \E c \in CallIds, src \in PureScripts, libOk \in BOOLEAN, modOk \in BOOLEAN :
       runHook(c, src, libOk, modOk)
  \/ \E c \in CallIds : afterInput(c)
  \/ \E c \in CallIds : afterContext(c)
  \/ \E c \in CallIds : afterOutput(c)
  \/ \E c \in CallIds : return(c)

Spec == Init /\ [][Next]_vars

\* A caller that awaits each handleInput before it issues the next; any script.
NextSerial ==
  \/ \E m \in Modes : setSelectedMode(m)
  \/ \E c \in CallIds, m \in ModeArgs, t \in TextArgs : handleInput(c, m, t, 1)
  \/ \E c \in CallIds : dispatch(c)
  \/ \E c \in CallIds, src \in Scripts, libOk \in BOOLEAN, modOk \in BOOLEAN :
       runHook(c, src, libOk, modOk)
  \/ \E c \in CallIds : afterInput(c)
  \/ \E c \in CallIds : afterContext(c)
  \/ \E c \in CallIds : afterOutput(c)
  \/ \E c \in CallIds : return(c)

SpecSerial == Init /\ [][NextSerial]_vars

\* An awaiting caller, scripts that do not touch history.
NextNeutral ==
  \/ \E m \in Modes : setSelectedMode(m)
  \/ \E c \in CallIds, m \in ModeArgs, t \in TextArgs : handleInput(c, m, t, 1)
  \/ \E c \in CallIds : dispatch(c)
  \/ \E c \in CallIds, src \in HistoryNeutralScripts, libOk \in BOOLEAN,
        modOk \in BOOLEAN : runHook(c, src, libOk, modOk)
  \/ \E c \in CallIds : afterInput(c)
  \/ \E c \in CallIds : afterContext(c)
  \/ \E c \in CallIds : afterOutput(c)
  \/ \E c \in CallIds : return(c)

SpecNeutral == Init /\ [][NextNeutral]_vars

\* An awaiting caller, identity scripts.
NextIdentity ==
  \/ \E m \in Modes : setSelectedMode(m)
  \/ \E c \in CallIds, m \in ModeArgs, t \in TextArgs : handleInput(c, m, t, 1)
  \/ \E c \in CallIds : dispatch(c)
  \/ \E c \in CallIds, src \in IdentityScripts, libOk \in BOOLEAN,
        modOk \in BOOLEAN : runHook(c, src, libOk, modOk)
  \/ \E c \in CallIds : afterInput(c)
  \/ \E c \in CallIds : afterContext(c)
  \/ \E c \in CallIds : afterOutput(c)
  \/ \E c \in CallIds : return(c)

SpecIdentity == Init /\ [][NextIdentity]_vars

\* A direct call addStoryCard(keys, a.entry, a.type); the registry is kept within
\* MaxCards cards.
AddStoryCard(keys, a) ==
  LET type == TypeOrDefault(a.type)
      r == addStoryCard(storyCards, keys, a.entry, type)
  IN /\ Len(r.cards) <= MaxCards
     /\ storyCards' = r.cards
     /\ cardOp' = [NoCardOp EXCEPT !.op = "add", !.keys = keys, !.entry = a.entry,
                                   !.type = type, !.size0 = Len(storyCards),
                                   !.ok = r.ok, !.ret = r.ret]
     /\ UNCHANGED <<currentSide, selectedMode, history, memory, calls, submitted, load>>

\* A direct call removeStoryCard(index)
RemoveStoryCard(index) ==
  LET r == removeStoryCard(storyCards, index)
  IN /\ storyCards' = r.cards
     /\ cardOp' = [NoCardOp EXCEPT !.op = "remove", !.index = index,
                                   !.size0 = Len(storyCards), !.threw = r.threw]
     /\ UNCHANGED <<currentSide, selectedMode, history, memory, calls, submitted, load>>

\* A direct call updateStoryCard(index, keys, a.entry, a.type)
UpdateStoryCard(index, keys, a) ==
  LET type == TypeOrDefault(a.type)
      r == updateStoryCard(storyCards, index, keys, a.entry, type)
  IN /\ storyCards' = r.cards
     /\ cardOp' = [NoCardOp EXCEPT !.op = "update", !.index = index, !.keys = keys,
                                   !.entry = a.entry, !.type = type,
                                   !.size0 = Len(storyCards), !.threw = r.threw]
     /\ UNCHANGED <<currentSide, selectedMode, history, memory, calls, submitted, load>>

\* The story-card registry on its own: any sequence of direct calls.
NextCards ==
  \/ \E keys \in KeyArgs, a \in CardArgs : AddStoryCard(keys, a)
  \/ \E index \in IndexArgs : RemoveStoryCard(index)
  \/ \E index \in IndexArgs, keys \in KeyArgs, a \in CardArgs :
       UpdateStoryCard(index, keys, a)

SpecCards == Init /\ [][NextCards]_vars

\* A direct call of loadModifier of Loader.js with a hook source that ends as `tail`
\* says, on the live bindings.
LoadModifier(src, tail, libOk, modOk, text) ==
  /\ load.n < MaxLoads
  /\ LET r == loadModifierOf(src, tail, libOk, modOk, getHookGlobals(text, World))
     IN /\ history' = r.world.history
        /\ storyCards' = r.world.storyCards
        /\ memory' = r.world.memory
        /\ load' = [loader |-> "Loader.js", tail |-> tail, result |-> src.result,
                    text |-> text, fetched |-> libOk /\ modOk, runs |-> r.runs,
                    value |-> r.value, threw |-> r.threw, n |-> load.n + 1]
  /\ UNCHANGED <<currentSide, selectedMode, calls, submitted, cardOp>>

\* A direct call of loadModifier of the sandbox loader.
SandboxLoadModifier(src, tail, libOk, modOk, text) ==
  /\ load.n < MaxLoads
  /\ LET r == sandboxLoadModifier(src, tail, libOk, modOk, getHookGlobals(text, World))
     IN /\ history' = r.world.history
        /\ storyCards' = r.world.storyCards
        /\ memory' = r.world.memory
        /\ load' = [loader |-> "sandboxLoader.js", tail |-> tail, result |-> src.result,
                    text |-> text, fetched |-> libOk /\ modOk, runs |-> r.runs,
                    value |-> r.value, threw |-> r.threw, n |-> load.n + 1]
  /\ UNCHANGED <<currentSide, selectedMode, calls, submitted, cardOp>>

\* The two loaders of the repository on their own: any sequence of loads.
NextLoader ==
  \/ \E src \in Scripts, tail \in Tails, libOk \in BOOLEAN, modOk \in BOOLEAN,
        text \in LoadTexts : LoadModifier(src, tail, libOk, modOk, text)
  \/ \E src \in Scripts, tail \in Tails, libOk \in BOOLEAN, modOk \in BOOLEAN,
        text \in LoadTexts : SandboxLoadModifier(src, tail, libOk, modOk, text)

SpecLoader == Init /\ [][NextLoader]_vars

\* SpecNeutral with the scheduling of the runtime: a continuation that is ready runs
\* (the microtask queue is drained), and every pending hook settles (its fetches
\* answer and its body returns or throws).
SpecFair ==
  /\ Init
  /\ [][NextNeutral]_vars
  /\ \A c \in CallIds :
       /\ WF_vars(dispatch(c))
       /\ WF_vars(\E src \in HistoryNeutralScripts, libOk \in BOOLEAN, modOk \in BOOLEAN :
                    runHook(c, src, libOk, modOk))
       /\ WF_vars(afterInput(c))
       /\ WF_vars(afterContext(c))
       /\ WF_vars(afterOutput(c))


\* ------------------------------------------------------------- properties
Last(s) == s[Len(s)]
IsPrefix(p, s) == Len(p) <= Len(s) /\ SubSeq(s, 1, Len(p)) = p
Other(side) == IF side = "user" THEN "ai" ELSE "user"

\* The text of invocation c is empty or whitespace only.
BlankCall(c) ==
  /\ calls[c].pc # "idle"
  /\ LET t == calls[c].text
     IN t.t = "undefined" \/ \A i \in 1..Len(t.v) : t.v[i] \in {" ", "\n"}

\* Invocation c has taken a turn (its text was not blank) and has returned.
TurnDone(c) == calls[c].pc = "done" /\ ~BlankCall(c)

\* This step ends the turn of invocation c.
Completes(c) == calls[c].pc \in {"hook", "resume"} /\ calls'[c].pc = "done"

\* C1: with invocations issued one at a time, currentSide starts as user, every
\* turn (non-blank invocation) that completes flips it, user to ai and ai to user,
\* and nothing else changes it: the sides strictly alternate.
C1_SidesAlternate ==
  /\ currentSide = "user"
  /\ [][/\ \A c \in CallIds : Completes(c) =>
              /\ currentSide = calls[c].side
              /\ \/ currentSide = "user" /\ currentSide' = "ai"
                 \/ currentSide = "ai" /\ currentSide' = "user"
        /\ currentSide' # currentSide => \E c \in CallIds : Completes(c)]_vars

C1_Witness ==
  \E c \in CallIds : TurnDone(c) /\ calls[c].side = "ai" /\ currentSide = "user"

\* C2: currentSide is user initially and is user or ai in every reachable state,
\* the states with a pending hook included.
C2_SideIsUserOrAi ==
  /\ currentSide = "user"
  /\ [](currentSide \in {"user", "ai"})

C2_Witness ==
  \E c \in CallIds : calls[c].pc = "hook" /\ calls[c].hook = "outputModifier"
                     /\ currentSide = "ai"

\* C3 as stated: whenever a hook of a turn failed, the turn has added exactly one
\* entry, whose text is the original input, has flipped currentSide, has kept the
\* earlier entries, and has not rejected.
C3_AsStated ==
  \A c \in CallIds :
    /\ calls[c].pc # "rejected"
    /\ (TurnDone(c) /\ calls[c].failed # {}) =>
         /\ Len(history) = Len(calls[c].h0) + 1
         /\ IsPrefix(calls[c].h0, history)
         /\ Last(history).text = calls[c].text
         /\ currentSide = Other(calls[c].side)

\* C3 amended: with hooks that do not touch history, whenever a hook of a turn
\* failed, the turn has added exactly one entry, whose text is the effective output
\* of the turn's first hook (the original input when that hook is the one that
\* failed), has flipped currentSide, has kept the earlier entries, and has not
\* rejected.
C3_FailedHookTurnCompletes ==
  \A c \in CallIds :
    /\ calls[c].pc # "rejected"
    /\ (TurnDone(c) /\ calls[c].failed # {}) =>
         /\ Len(history) = Len(calls[c].h0) + 1
         /\ IsPrefix(calls[c].h0, history)
         /\ Last(history).text = calls[c].newText
         /\ calls[c].newText.t = "string"
         /\ (calls[c].failed \cap {"inputModifier", "outputModifier"} # {}) =>
              calls[c].newText = calls[c].text
         /\ currentSide = Other(calls[c].side)

C3_Witness ==
  \E c \in CallIds : /\ TurnDone(c)
                     /\ calls[c].failed = {"contextModifier"}
                     /\ calls[c].newText # calls[c].text

\* C4: a blank invocation never has a hook and never gets past the blank check, and
\* its steps leave history, currentSide, the story cards and the memory unchanged.
C4_BlankIsNoOp ==
  /\ [](\A c \in CallIds : BlankCall(c) =>
          /\ calls[c].pc \in {"init", "done"}
          /\ calls[c].ran = <<>>)
  /\ [][\A c \in CallIds : (BlankCall(c) /\ calls'[c] # calls[c]) =>
          UNCHANGED <<history, currentSide, storyCards, memory>>]_vars

C4_Witness ==
  \E c \in CallIds : /\ BlankCall(c)
                     /\ calls[c].pc = "done"
                     /\ currentSide = "ai"
                     /\ storyCards # <<>>
                     /\ memory.frontMemory # <<>>

\* C5 as stated: the entry a user turn appends carries the mode the caller passed
\* and the effective output of inputModifier.
C5_AsStated ==
  \A c \in CallIds :
    (TurnDone(c) /\ calls[c].side = "user") =>
       Last(history) = [mode |-> calls[c].mode, text |-> calls[c].newText]

\* C6: an AI turn runs outputModifier and no other hook, appends exactly the entry
\* {mode: "", text: result}, result the effective output of the hook (the input
\* itself when the hook failed), and hands over to the user side.
C6_AITurn ==
  \A c \in CallIds :
    (calls[c].pc # "idle" /\ calls[c].side = "ai") =>
       /\ calls[c].ran = <<"outputModifier">>
       /\ calls[c].hook = "outputModifier"
       /\ TurnDone(c) =>
            /\ history = Append(calls[c].h0, [mode |-> "", text |-> calls[c].newText])
            /\ calls[c].newText = calls[c].ret
            /\ "outputModifier" \in calls[c].failed => calls[c].newText = calls[c].text
            /\ currentSide = "user"

C6_Witness ==
  \E c \in CallIds : /\ TurnDone(c)
                     /\ calls[c].side = "ai"
                     /\ calls[c].mode = "do"
                     /\ calls[c].newText # calls[c].text

\* C7: in a user turn inputModifier runs first and nothing is appended while it is
\* pending; when contextModifier is started, once, the entry of the turn is the
\* last of history and the hook is given the join of that full history;
\* currentSide stays user until the context hook has settled and is ai after.
C7_UserTurnOrder ==
  \A c \in CallIds :
    (calls[c].pc # "idle" /\ calls[c].side = "user") =>
       /\ calls[c].hook = "inputModifier" =>
            /\ calls[c].ran = <<"inputModifier">>
            /\ calls[c].newText = Undefined
            /\ history = calls[c].h0 \/ calls[c].pc = "resume"
            /\ currentSide = "user"
       /\ calls[c].hook = "contextModifier" =>
            /\ calls[c].ran = <<"inputModifier", "contextModifier">>
            /\ calls[c].newText.t = "string"
            /\ calls[c].pc = "hook" =>
                 /\ Last(history).text = calls[c].newText
                 /\ calls[c].arg =
                      Join([i \in 1..Len(history) |-> history[i].text.v])
            /\ calls[c].pc \in {"hook", "resume"} => currentSide = "user"
            /\ calls[c].pc = "done" => currentSide = "ai"

C7_Witness ==
  \E c \in CallIds : /\ calls[c].pc = "hook"
                     /\ calls[c].hook = "contextModifier"
                     /\ calls[c].newText = Str(<<"a", "!">>)
                     /\ Len(history) = 2

\* C8 as stated: after a turn the memory field context is the newline join of the
\* texts of the history entries (with or without the session-start entry).
C8_AsStated ==
  \A c \in CallIds :
    TurnDone(c) =>
       \/ memory.context = Join([i \in 1..Len(history) |-> history[i].text.v])
       \/ memory.context = Join([i \in 1..Len(history) - 1 |-> history[i + 1].text.v])

\* The history at the dispatch of invocation c holds no entry of a turn.
FirstTurnDone(c) ==
  /\ TurnDone(c)
  /\ \A i \in 1..Len(calls[c].h0) : calls[c].h0[i].mode = "start"

\* C9 as stated: after the first turn of a session with identity hooks history
\* holds one entry, with the text of the turn, the side is ai and the context is
\* that text; history was empty before.
C9_AsStated ==
  \A c \in CallIds :
    FirstTurnDone(c) =>
       /\ calls[c].h0 = <<>>
       /\ Len(history) = 1
       /\ history[1].text = calls[c].text
       /\ currentSide = "ai"
       /\ calls[c].context = calls[c].text

\* C9 amended: after the first turn of a session with identity hooks history holds
\* two entries, the session-start entry init pushed and then one entry with the
\* text of the turn, the side is ai and the context is the text of the
\* session-start entry, a newline and the text of the turn.
C9_FirstTurn ==
  \A c \in CallIds :
    FirstTurnDone(c) =>
       /\ calls[c].h0 = <<[mode |-> "start",
                           text |-> Str(<<"=== New Session Started ===">>)]>>
       /\ Len(history) = 2
       /\ history[1] = calls[c].h0[1]
       /\ history[2].text = calls[c].text
       /\ currentSide = "ai"
       /\ calls[c].context =
            Str(<<"=== New Session Started ===", "\n">> \o calls[c].text.v)

C9_Witness ==
  \E c \in CallIds : /\ FirstTurnDone(c)
                     /\ calls[c].text = Str(<<"a">>)
                     /\ calls[c].mode = "say"

\* C10 as stated: after a user turn the memory field transformedContext holds the
\* effective output of the contextModifier hook of that turn.
C10_AsStated ==
  \A c \in CallIds :
    (TurnDone(c) /\ calls[c].side = "user") =>
       MemoryGet(memory, "transformedContext") = calls[c].context

\* The value x is not an object with a string-typed text field and not a string.
InvalidShape(x) == x.t # "string" /\ ~(x.t = "object" /\ x.tt = "string")

\* C11: whenever the result captured from a hook is not an object with a string
\* text field ({text: 42}, {}, undefined, a number), the effective output of the
\* hook is the unmodified input it was given, no exception escapes handleInput, and
\* the turn goes on as with an identity hook: after inputModifier the entry pushed
\* is the input text and contextModifier is started, after contextModifier and
\* after outputModifier the turn completes and flips currentSide.
C11_InvalidShapeFallsBack ==
  /\ [](\A c \in CallIds :
          /\ calls[c].pc # "rejected"
          /\ (calls[c].pc = "resume" /\ InvalidShape(calls[c].result)) =>
               calls[c].ret = [t |-> "string", tt |-> "undefined", v |-> calls[c].arg])
  /\ [][\A c \in CallIds :
          (/\ calls[c].pc = "resume"
           /\ InvalidShape(calls[c].result)
           /\ calls'[c] # calls[c]) =>
             CASE calls[c].hook = "inputModifier" ->
                    /\ calls'[c].pc = "hook"
                    /\ calls'[c].hook = "contextModifier"
                    /\ Len(history') = Len(history) + 1
                    /\ Last(history').text = calls[c].text
               [] calls[c].hook = "outputModifier" ->
                    /\ calls'[c].pc = "done"
                    /\ Len(history') = Len(history) + 1
                    /\ Last(history').text = calls[c].text
                    /\ currentSide' = "user"
               [] OTHER ->
                    /\ calls'[c].pc = "done"
                    /\ calls'[c].context.v = calls[c].arg
                    /\ history' = history
                    /\ currentSide' = "ai"]_vars

C11_Witness ==
  \E c \in CallIds : /\ calls[c].pc = "resume"
                     /\ calls[c].hook = "contextModifier"
                     /\ calls[c].result = [t |-> "object", tt |-> "number", v |-> <<>>]
                     /\ calls[c].ret.v = calls[c].arg

\* C12 as stated: a plain string s captured from a hook is a valid result, the
\* effective output of the hook is s.
C12_AsStated ==
  \A c \in CallIds :
    (calls[c].pc = "resume" /\ calls[c].result.t = "string") =>
       calls[c].ret.v = calls[c].result.v

\* C12 amended: a plain string captured from a hook is an invalid shape, the
\* effective output of the hook is the input it was given and the hook counts as
\* failed; the one valid shape is an object with a string text field, whose text
\* is then the effective output.
C12_PlainStringIsInvalid ==
  \A c \in CallIds :
    calls[c].pc = "resume" =>
       /\ calls[c].result.t = "string" =>
            /\ calls[c].ret.v = calls[c].arg
            /\ calls[c].hook \in calls[c].failed
       /\ (calls[c].result.t = "object" /\ calls[c].result.tt = "string") =>
            calls[c].ret.v = calls[c].result.v
       /\ calls[c].ret.v # calls[c].arg =>
            (calls[c].result.t = "object" /\ calls[c].result.tt = "string")

C12_Witness ==
  \E c \in CallIds : /\ calls[c].pc = "resume"
                     /\ calls[c].hook = "inputModifier"
                     /\ calls[c].result = [t |-> "string", tt |-> "undefined",
                                           v |-> <<"a", "!">>]
                     /\ calls[c].arg = <<"a">>

\* Invocation c has read currentSide and has not completed its turn yet: its hook
\* chain is pending.
InHookChain(c) == calls[c].pc \in {"hook", "resume"}

\* C13 as stated: invocations are serialized end to end: while the hook chain of one
\* invocation is pending, no other invocation is between its read of currentSide
\* and the end of its turn (none has a hook running or an append still to make).
C13_AsStated ==
  \A c, d \in CallIds :
    (c # d /\ InHookChain(c)) => ~InHookChain(d)

\* C14 as stated: at most one hook invocation is in flight in every reachable state.
C14_AsStated == Cardinality({c \in CallIds : calls[c].pc = "hook"}) <= 1

\* No invocation is in progress.
Quiescent == \A c \in CallIds : calls[c].pc \in {"idle", "done"}

\* The entries of history that turns appended (init pushed the first one).
TurnEntries == Len(history) - 1

\* C15 as stated: every turn, overlapping another or not, appends one entry and
\* flips currentSide once, so that whenever no invocation is in progress currentSide
\* is user exactly when the number of entries appended by turns is even.
C15_AsStated ==
  Quiescent => (currentSide = "user" <=> TurnEntries % 2 = 0)

\* C16: with hooks that do not touch history, history only grows at its end: every
\* step leaves the history it found as a prefix of the history it leaves, the
\* session-start entry stays first, and the history an invocation found at its
\* dispatch is a prefix of history ever after; a completed turn has made it longer.
C16_HistoryAppendOnly ==
  /\ [][IsPrefix(history, history')]_vars
  /\ [](/\ Len(history) >= 1
        /\ history[1].mode = "start"
        /\ \A c \in CallIds :
             /\ IsPrefix(calls[c].h0, history)
             /\ TurnDone(c) => Len(history) > Len(calls[c].h0))

C16_Witness ==
  \E c \in CallIds : /\ TurnDone(c)
                     /\ calls[c].side = "ai"
                     /\ Len(calls[c].h0) = 2
                     /\ Len(history) = 3

\* C17 as stated: when a turn ends, the context the engine built in it (the join
\* handed to contextModifier in a user turn, the context rendered in an AI turn) is
\* the newline join of the texts of history as it then stands, whatever the hooks
\* of the turn did to history.
C17_AsStated ==
  \A c \in CallIds :
    TurnDone(c) =>
       LET joined == Join([i \in 1..Len(history) |-> history[i].text.v])
       IN IF calls[c].side = "user"
          THEN calls[c].arg = joined
          ELSE calls[c].context.v = joined

\* Card i (counted from 1) of the registry has the key sequence keys.
HasKeys(cards, keys) == \E i \in 1..Len(cards) : cards[i].keys = keys

\* C18: addStoryCard(keys, entry, type) on a registry that holds a card with the
\* same key sequence (same elements, same order) returns false and leaves the
\* registry as it was; otherwise it appends one card (keys, entry, type, id the
\* size before) at the end and returns the size before.  Key sequences with the
\* same elements in another order are not duplicates.
C18_AddStoryCard ==
  [][cardOp'.op = "add" =>
       IF HasKeys(storyCards, cardOp'.keys)
       THEN /\ ~cardOp'.ok
            /\ storyCards' = storyCards
       ELSE /\ cardOp'.ok
            /\ cardOp'.ret = Len(storyCards)
            /\ Len(storyCards') = Len(storyCards) + 1
            /\ SubSeq(storyCards', 1, Len(storyCards)) = storyCards
            /\ Last(storyCards') = [id |-> Len(storyCards), keys |-> cardOp'.keys,
                                    entry |-> cardOp'.entry, type |-> cardOp'.type]]_vars

C18_Witness ==
  /\ cardOp.op = "add"
  /\ ~cardOp.ok
  /\ cardOp.keys = <<"a", "b">>
  /\ Len(storyCards) = 2
  /\ storyCards[1].keys = <<"b", "a">>
  /\ storyCards[2].keys = <<"a", "b">>

\* C19 as stated: no two cards of the registry have the same key sequence.
C19_AsStated ==
  \A i, j \in 1..Len(storyCards) :
    i # j => storyCards[i].keys # storyCards[j].keys

\* C20 as stated: the id of every card is its index in the registry.
C20_AsStated ==
  \A i \in 1..Len(storyCards) : storyCards[i].id = i - 1

\* The index of the story-card call just made is within the registry it found.
ValidIndex == 0 <= cardOp'.index /\ cardOp'.index < Len(storyCards)

\* C21: removeStoryCard(index) with 0 <= index < size does not throw and deletes
\* the card at that position only: the registry is one card shorter, the cards
\* before index stay where they were, and every card after index is one position
\* lower with the same keys, entry and type.
C21_RemoveStoryCard ==
  [][(cardOp'.op = "remove" /\ ValidIndex) =>
       /\ ~cardOp'.threw
       /\ Len(storyCards') = Len(storyCards) - 1
       /\ \A i \in 1..cardOp'.index : storyCards'[i] = storyCards[i]
       /\ \A i \in (cardOp'.index + 2)..Len(storyCards) :
            /\ storyCards'[i - 1].keys = storyCards[i].keys
            /\ storyCards'[i - 1].entry = storyCards[i].entry
            /\ storyCards'[i - 1].type = storyCards[i].type]_vars

C21_Witness ==
  /\ cardOp.op = "remove"
  /\ cardOp.index = 0
  /\ cardOp.size0 = 2
  /\ ~cardOp.threw
  /\ Len(storyCards) = 1
  /\ storyCards[1].keys = <<"a", "b">>
  /\ storyCards[1].type = "lore"

\* C22: removeStoryCard(index) and updateStoryCard(index, ...) with index < 0 or
\* index >= size (any index on an empty registry) throw to their direct caller and
\* leave the registry, and the state of the engine, as they were; with an index
\* within the registry they do not throw.
C22_OutOfRangeThrows ==
  [][cardOp'.op \in {"remove", "update"} =>
       IF ValidIndex
       THEN ~cardOp'.threw
       ELSE /\ cardOp'.threw
            /\ UNCHANGED <<storyCards, history, memory, currentSide, calls>>]_vars

C22_Witness ==
  /\ cardOp.op = "update"
  /\ cardOp.threw
  /\ cardOp.index = 2
  /\ cardOp.size0 = 2
  /\ Len(storyCards) = 2

\* C23 as stated: updateStoryCard(index, keys, entry, type) with a valid index
\* replaces the keys, entry and type of the card at that position and nothing else:
\* the size, the id of that card and every other card are unchanged.
C23_AsStated ==
  [][(cardOp'.op = "update" /\ ValidIndex) =>
       /\ Len(storyCards') = Len(storyCards)
       /\ storyCards'[cardOp'.index + 1] =
            [id |-> storyCards[cardOp'.index + 1].id, keys |-> cardOp'.keys,
             entry |-> cardOp'.entry, type |-> cardOp'.type]
       /\ \A i \in 1..Len(storyCards) :
            i # cardOp'.index + 1 => storyCards'[i] = storyCards[i]]_vars

\* C24 as stated: one invocation of a loader executes modifier at most once, however
\* the hook source ends; and when the source ends with the trailing call, with or
\* without its semicolon, and nothing throws, the value handed back is the value of
\* that call.
C24_AsStated ==
  /\ load.runs <= 1
  /\ (load.fetched /\ ~load.threw /\ load.tail \in {"call", "callSemi"}) =>
       load.value =
         (CASE load.result = "identity" ->
                 [t |-> "object", tt |-> "string", v |-> load.text]
            [] load.result = "modify" ->
                 [t |-> "object", tt |-> "string", v |-> load.text \o <<"!">>]
            [] load.result = "plain" ->
                 [t |-> "string", tt |-> "undefined", v |-> load.text \o <<"!">>]
            [] load.result = "number" -> [t |-> "object", tt |-> "number", v |-> <<>>]
            [] load.result = "empty" -> [t |-> "object", tt |-> "undefined", v |-> <<>>]
            [] OTHER -> [t |-> "undefined", tt |-> "undefined", v |-> <<>>])

\* C25: when a fetch of the library or of the hook source fails, the hook invocation
\* changes nothing in history, the story cards and the memory (no code has run),
\* nothing escapes, nothing was captured, and the effective output of the hook is
\* the input it was given.
C25_FetchFailureRunsNothing ==
  /\ [](\A c \in CallIds :
          /\ calls[c].pc # "rejected"
          /\ (calls[c].pc = "resume" /\ calls[c].loadError) =>
               /\ calls[c].ret = [t |-> "string", tt |-> "undefined", v |-> calls[c].arg]
               /\ calls[c].result.t = "undefined"
               /\ calls[c].hook \in calls[c].failed)
  /\ [][\A c \in CallIds :
          (calls[c].pc = "hook" /\ calls'[c].pc = "resume" /\ calls'[c].loadError) =>
             /\ UNCHANGED <<history, storyCards, memory, currentSide>>
             /\ calls'[c].wrote = calls[c].wrote]_vars

C25_Witness ==
  \E c \in CallIds : /\ calls[c].pc = "resume"
                     /\ calls[c].loadError
                     /\ calls[c].hook = "contextModifier"
                     /\ calls[c].newText.v = <<"a", "!">>
                     /\ calls[c].ret.v = calls[c].arg

\* C26: with hooks that always settle (fairness of SpecFair), every invocation with
\* a non-blank text eventually completes its turn; and a hook that stays pending
\* holds its turn where it is: as long as the hook of an invocation has not settled
\* no step appends to history, flips currentSide or moves the invocation on.
C26_TurnsComplete ==
  /\ \A c \in CallIds : (calls[c].pc = "init" /\ ~BlankCall(c)) ~> TurnDone(c)
  /\ [][\A c \in CallIds :
          (calls[c].pc = "hook" /\ calls'[c].pc = "hook") =>
             /\ calls'[c] = calls[c]
             /\ UNCHANGED <<history, currentSide>>]_vars

C26_Witness ==
  \E c \in CallIds : /\ TurnDone(c)
                     /\ calls[c].side = "user"
                     /\ calls[c].failed = {"inputModifier", "contextModifier"}
                     /\ Len(history) = Len(calls[c].h0) + 1

\* The effects a hook body can have on the bindings before it throws.
ThrowingEffects == {"pushHistory", "setFrontMemory", "addStoryCard"}

\* C27: a hook that changes history, the story cards or the memory and then throws
\* leaves its change in place: the step in which it settles applies the change, its
\* effective output is the input it was given and nothing escapes; and no
\* continuation of the engine takes a change back (history is only appended to, the
\* story cards are not touched, of the memory only frontMemory is reset by a user
\* turn).
C27_FailureKeepsMutations ==
  /\ [][\A c \in CallIds, e \in ThrowingEffects :
          runHook(c, [effect |-> e, result |-> "throw"], TRUE, TRUE) =>
             /\ history' = IF e = "pushHistory"
                           THEN Append(history, [mode |-> "story",
                                                 text |-> [t |-> "string",
                                                           tt |-> "undefined",
                                                           v |-> <<"h">>]])
                           ELSE history
             /\ memory' = IF e = "setFrontMemory"
                          THEN [memory EXCEPT !.frontMemory = <<"fm">>]
                          ELSE memory
             /\ storyCards' = IF e = "addStoryCard" /\ ~HasKeys(storyCards, <<"k">>)
                              THEN Append(storyCards,
                                          [id |-> Len(storyCards), keys |-> <<"k">>,
                                           entry |-> "lore", type |-> "general"])
                              ELSE storyCards
             /\ calls'[c].pc = "resume"
             /\ calls'[c].ret.v = calls[c].arg
             /\ calls[c].hook \in calls'[c].failed]_vars
  /\ [][\A c \in CallIds :
          (calls[c].pc = "resume" /\ calls'[c] # calls[c]) =>
             /\ IsPrefix(history, history')
             /\ storyCards' = storyCards
             /\ memory' \in {memory, [memory EXCEPT !.frontMemory = <<>>]}]_vars

C27_Witness ==
  \E c \in CallIds :
    /\ TurnDone(c)
    /\ calls[c].side = "ai"
    /\ calls[c].failed = {"outputModifier"}
    /\ <<"outputModifier", "history">> \in calls[c].wrote
    /\ Len(history) = Len(calls[c].h0) + 2
    /\ history[Len(history) - 1].text.v = <<"h">>
    /\ Last(history).text = calls[c].text

\* Invocation c is a user turn waiting for its context hook.
ContextPending(c) == calls[c].pc = "hook" /\ calls[c].hook = "contextModifier"

\* C28: a user turn is not atomic.  The step that follows its input hook appends
\* its entry to history and starts the context hook without touching currentSide;
\* the context hook settling does not touch currentSide either; so while the
\* context hook of c is pending and currentSide is still user, another invocation
\* that passes its blank check is taken as a user turn again (it starts with
\* inputModifier) although the entry of c is already in the history it sees.
C28_UserTurnNotAtomic ==
  /\ [][\A c \in CallIds :
          (calls[c].pc = "resume" /\ calls[c].hook = "inputModifier"
             /\ calls'[c] # calls[c]) =>
             /\ ContextPending(c)'
             /\ history' = Append(history, [mode |-> "", text |-> calls[c].ret])
             /\ currentSide' = currentSide]_vars
  /\ [][\A c \in CallIds :
          (ContextPending(c) /\ calls'[c].pc # "hook") =>
             currentSide' = currentSide]_vars
  /\ [][\A c, d \in CallIds :
          (c # d /\ ContextPending(c) /\ currentSide = "user"
             /\ calls[d].pc = "init" /\ calls'[d].pc = "hook") =>
             /\ calls'[d].side = "user"
             /\ calls'[d].hook = "inputModifier"
             /\ calls'[d].h0 = history
             /\ \E i \in 1..Len(history) : history[i].text = calls[c].newText]_vars

C28_Witness ==
  \E c, d \in CallIds :
    /\ c # d
    /\ ContextPending(c)
    /\ calls[c].side = "user"
    /\ currentSide = "user"
    /\ calls[d].pc = "hook"
    /\ calls[d].hook = "inputModifier"
    /\ calls[d].side = "user"
    /\ Len(calls[d].h0) = Len(calls[c].h0) + 1
    /\ Last(calls[d].h0).text = calls[c].newText

\* Invocation c is at the continuation of its first hook (inputModifier on a user
\* turn, outputModifier on an AI turn).
FirstHookCompleted(c) ==
  calls[c].pc = "resume" /\ calls[c].hook \in {"inputModifier", "outputModifier"}

\* C29: with overlapping invocations, history changes only in the step in which an
\* invocation continues after its own first hook has completed, and that step
\* puts the invocation's entry (the hook's effective output, mode "") at the end;
\* issuing or dispatching an invocation adds nothing.  The entries are therefore in
\* the order in which the first hooks completed, whatever the order of issue.
C29_EntriesInCompletionOrder ==
  /\ [][history' # history =>
          \E c \in CallIds :
            /\ FirstHookCompleted(c)
            /\ calls'[c].pc \in {"hook", "done"}
            /\ calls'[c].newText = calls[c].ret
            /\ history' = Append(history, [mode |-> "", text |-> calls[c].ret])]_vars
  /\ [][\A c \in CallIds :
          (FirstHookCompleted(c) /\ calls'[c] # calls[c]) =>
             history' = Append(history, [mode |-> "", text |-> calls[c].ret])]_vars

\* Two invocations were issued, 1 (text "a") before 2 (text "b"): slot 2 is taken
\* only while slot 1 is busy.  The first hook of 2 completed first, so its entry
\* precedes the entry of 1.
C29_Witness ==
  /\ submitted = 2
  /\ calls[1].pc \in {"hook", "resume", "done"}
  /\ calls[2].pc \in {"hook", "resume", "done"}
  /\ calls[1].text = Str(<<"a">>)
  /\ calls[2].text = Str(<<"b">>)
  /\ calls[1].failed = {}
  /\ calls[2].failed = {}
  /\ Len(history) = 3
  /\ history[2].text = calls[2].newText
  /\ history[3].text = calls[1].newText
  /\ history[2].text.v[1] = "b"
  /\ history[3].text.v[1] = "a"

\* This step is a hook of some invocation settling.
HookSettles == \E c \in CallIds : calls[c].pc = "hook" /\ calls'[c].pc # "hook"

\* C30: in a user turn the step between the input hook and the context hook sets
\* frontMemory to the empty string and leaves the rest of the memory alone, so
\* while the context hook is pending frontMemory is empty whatever the input hook
\* wrote; every other step of the engine (issue, blank return, dispatch, the
\* continuations of an AI turn and of the context hook, return, mode selection)
\* leaves the whole memory unchanged, and no step of the engine changes
\* authorsNote.
C30_FrontMemoryReset ==
  /\ [][\A c \in CallIds :
          (calls[c].pc = "resume" /\ calls[c].hook = "inputModifier"
             /\ calls'[c] # calls[c]) =>
             /\ memory'.frontMemory = <<>>
             /\ memory'.context = memory.context
             /\ memory'.authorsNote = memory.authorsNote
             /\ calls'[c].pc = "hook"
             /\ calls'[c].hook = "contextModifier"]_vars
  /\ [](\A c \in CallIds :
          (calls[c].pc = "hook" /\ calls[c].hook = "contextModifier") =>
             memory.frontMemory = <<>>)
  /\ [][\A c \in CallIds :
          (calls'[c] # calls[c] /\ calls[c].pc # "hook"
             /\ ~(calls[c].pc = "resume" /\ calls[c].hook = "inputModifier")) =>
             memory' = memory]_vars
  /\ [][~HookSettles => memory'.authorsNote = memory.authorsNote]_vars

\* The input hook of a user turn wrote frontMemory, and the write is gone when the
\* context hook is about to run.
C30_Witness ==
  \E c \in CallIds :
    /\ calls[c].pc = "hook"
    /\ calls[c].hook = "contextModifier"
    /\ calls[c].side = "user"
    /\ <<"inputModifier", "memory">> \in calls[c].wrote
    /\ memory.frontMemory = <<>>

====
